---- MODULE Spec2Model ----
(***************************************************************************)
(* Model of TEM_autosize_analyzer: the image analysis call                 *)
(* (core/analyzer.py), the session accumulator (core/session.py), the CSV  *)
(* writer (core/io_utils.py) and the handlers of the main window           *)
(* (gui/main_window.py).                                                   *)
(*                                                                         *)
(* Numbers.  Python floats are modelled as exact rationals [num, den] with *)
(* den > 0, in lowest terms; they are compared by cross multiplication.  A  *)
(* standard deviation is the square root of a rational and is kept as that *)
(* rational (field sqrtOf).  Optional values (x | None) are sequences of   *)
(* length at most one: <<>> is None.                                       *)
(*                                                                         *)
(* Library calls.  The results of the scikit-image calls are inputs of the *)
(* model: an image is given by its height, by the connected components of  *)
(* its scale-bar strip (label scan order, each with its tone, pixel area   *)
(* and bounding-box columns) and by the regions that segmentation of the   *)
(* cropped, enhanced image yields (label scan order, each with its         *)
(* descriptors).  Reading the image is assumed to succeed.                 *)
(***************************************************************************)
EXTENDS Integers, Sequences, FiniteSets, TLC

(***************************************************************************)
(* Bounds of the model.                                                    *)
(***************************************************************************)
MaxBars == 2
MaxRegions == 2
MaxTotal == 2
MaxAnalyses == 2
MaxList == 2
MaxCalls == 2
MaxSessionTotal == 3
MaxSessionCalls == 3

(***************************************************************************)
(* Optional values and rationals.                                          *)
(***************************************************************************)
None == <<>>
Some(x) == <<x>>

RECURSIVE GCD(_, _)
GCD(a, b) == IF b = 0 THEN a ELSE GCD(b, a % b)

\* A rational in lowest terms; d > 0.
Rat(n, d) ==
    LET g == GCD(IF n < 0 THEN -n ELSE n, d)
    IN  [num |-> n \div g, den |-> d \div g]
RatEq(a, b) == a.num * b.den = b.num * a.den
RatLe(a, b) == a.num * b.den <= b.num * a.den
RatAdd(a, b) == Rat(a.num * b.den + b.num * a.den, a.den * b.den)
RatSub(a, b) == Rat(a.num * b.den - b.num * a.den, a.den * b.den)
RatMul(a, b) == Rat(a.num * b.num, a.den * b.den)
RatDivInt(a, n) == Rat(a.num, a.den * n)
Sqrt(a) == [sqrtOf |-> a]

RECURSIVE RatSum(_)
RatSum(s) == IF s = <<>> THEN Rat(0, 1) ELSE RatAdd(Head(s), RatSum(Tail(s)))

RECURSIVE SeqsUpTo(_, _)
SeqsUpTo(S, n) ==
    IF n = 0 THEN {<<>>}
    ELSE LET shorter == SeqsUpTo(S, n - 1)
         IN  shorter \cup {Append(s, x) : s \in {t \in shorter : Len(t) = n - 1}, x \in S}

(***************************************************************************)
(* Records of core/analyzer.py.                                            *)
(***************************************************************************)
Thresholds(min_nm, max_nm, ecc_max, sol_min) ==
    [min_nm |-> min_nm, max_nm |-> max_nm, ecc_max |-> ecc_max, sol_min |-> sol_min]

AnalyzerSettings(sb_color, sb_min_area, crop_bottom_px) ==
    [sb_color |-> sb_color, sb_min_area |-> sb_min_area, crop_bottom_px |-> crop_bottom_px]

ImageResult(count, mean_nm, std_nm, values_nm, circles) ==
    [count |-> count, mean_nm |-> mean_nm, std_nm |-> std_nm,
     values_nm |-> values_nm, circles |-> circles]

\* An analysis call either returns an ImageResult or raises.
Returned(r) == [raised |-> "", result |-> Some(r)]
Raised(msg) == [raised |-> msg, result |-> None]

(***************************************************************************)
(* Analyzer.analyze_image, scale bar calibration.                          *)
(***************************************************************************)
\* str.lower() on the colour strings of the model.
Lower_Identity(s) == s

Lower(s) ==
    CASE s = "WHITE" -> "white"
      [] s = "Black" -> "black"
      [] OTHER -> s

\* sb_color = (sb_color or settings.sb_color).lower()
EffectiveColor(sb_color, settings) ==
    Lower(IF sb_color # None /\ sb_color[1] # "" THEN sb_color[1] ELSE settings.sb_color)

\* sb_bw: the pixels at or above white_thr, or at or below black_thr; at the
\* level of components, those of the matching tone.
ScaleBarMask(sb_region, color) ==
    IF color = "white"
    THEN SelectSeq(sb_region, LAMBDA c : c.tone = "bright")
    ELSE SelectSeq(sb_region, LAMBDA c : c.tone = "dark")

\* morphology.remove_small_objects: components smaller than min_size go.
remove_small_objects(comps, min_size) ==
    SelectSeq(comps, LAMBDA c : c.area >= min_size)

\* list.sort(key=area, reverse=True): stable, equal keys keep their order.
RECURSIVE InsertDesc(_, _)
InsertDesc(sorted, p) ==
    IF sorted = <<>> THEN <<p>>
    ELSE IF Head(sorted).area >= p.area
         THEN <<Head(sorted)>> \o InsertDesc(Tail(sorted), p)
         ELSE <<p>> \o sorted

RECURSIVE SortAcc(_, _)
SortAcc(acc, rest) ==
    IF rest = <<>> THEN acc ELSE SortAcc(InsertDesc(acc, Head(rest)), Tail(rest))

RECURSIVE InsertAsc(_, _)
InsertAsc(sorted, p) ==
    IF sorted = <<>> THEN <<p>>
    ELSE IF Head(sorted).area <= p.area
         THEN <<Head(sorted)>> \o InsertAsc(Tail(sorted), p)
         ELSE <<p>> \o sorted

RECURSIVE SortAccAsc(_, _)
SortAccAsc(acc, rest) ==
    IF rest = <<>> THEN acc ELSE SortAccAsc(InsertAsc(acc, Head(rest)), Tail(rest))

SortByArea_Ascending(sb_props) == SortAccAsc(<<>>, sb_props)

SortByArea(sb_props) == SortAcc(<<>>, sb_props)

\* minr, minc, maxr, maxc = sb_props[0].bbox; bar_width_px = maxc - minc
BarWidthPx(sorted_props) == sorted_props[1].maxc - sorted_props[1].minc

\* nm_per_pix = known_nm / bar_width_px
NmPerPix_Offset(known_nm, bar_width_px) == Rat(known_nm + 1, bar_width_px)

NmPerPix(known_nm, bar_width_px) == Rat(known_nm, bar_width_px)

\* The labelled components of the scale-bar strip after small-object removal.
SbProps(image, color, settings) ==
    remove_small_objects(ScaleBarMask(image.sb_region, color), settings.sb_min_area)

(***************************************************************************)
(* Analyzer.analyze_image, size and shape filter and aggregation.          *)
(***************************************************************************)
\* d_nm = equiv_diam * nm_per_pix, element by element
DNm(props, nm_per_pix) ==
    [i \in 1..Len(props) |-> RatMul(Rat(props[i].equivalent_diameter, 1), nm_per_pix)]

\* mask_size = (d_nm >= min_nm) & (d_nm <= max_nm)
MaskSize_Strict(d_nm, thresholds) ==
    [i \in 1..Len(d_nm) |->
        /\ RatLe(Rat(thresholds.min_nm, 1), d_nm[i])
        /\ ~RatLe(Rat(thresholds.max_nm, 1), d_nm[i])]

MaskSize(d_nm, thresholds) ==
    [i \in 1..Len(d_nm) |->
        /\ RatLe(Rat(thresholds.min_nm, 1), d_nm[i])
        /\ RatLe(d_nm[i], Rat(thresholds.max_nm, 1))]

\* mask_shape = (ecc <= ecc_max) & (sol >= sol_min)
MaskShape_SolReversed(props, thresholds) ==
    [i \in 1..Len(props) |->
        /\ props[i].eccentricity <= thresholds.ecc_max
        /\ props[i].solidity <= thresholds.sol_min]

MaskShape(props, thresholds) ==
    [i \in 1..Len(props) |->
        /\ props[i].eccentricity <= thresholds.ecc_max
        /\ props[i].solidity >= thresholds.sol_min]

\* valid = mask_size & mask_shape
Valid(props, nm_per_pix, thresholds) ==
    LET mask_size == MaskSize(DNm(props, nm_per_pix), thresholds)
        mask_shape == MaskShape(props, thresholds)
    IN  [i \in 1..Len(props) |-> mask_size[i] /\ mask_shape[i]]

\* values = d_nm[valid]: boolean-mask indexing keeps the order
RECURSIVE BoolIndex(_, _)
BoolIndex(arr, mask) ==
    IF arr = <<>> THEN <<>>
    ELSE (IF Head(mask) THEN <<Head(arr)>> ELSE <<>>) \o BoolIndex(Tail(arr), Tail(mask))

\* float(np.mean(values))
Mean(values) == RatDivInt(RatSum(values), Len(values))

\* float(np.std(values)): population standard deviation
Std(values) ==
    LET m == Mean(values)
        sq == [i \in 1..Len(values) |->
                  RatMul(RatSub(values[i], m), RatSub(values[i], m))]
    IN  Sqrt(RatDivInt(RatSum(sq), Len(values)))

\* the loop over zip(props, valid) that builds circles
Circle(prop) ==
    [x |-> prop.centroid[2], y |-> prop.centroid[1],
     r |-> Rat(prop.equivalent_diameter, 2)]

RECURSIVE Circles_NoSkip(_, _)
Circles_NoSkip(props, valid) ==
    IF props = <<>> THEN <<>>
    ELSE <<Circle(Head(props))>> \o Circles_NoSkip(Tail(props), Tail(valid))

RECURSIVE Circles(_, _)
Circles(props, valid) ==
    IF props = <<>> THEN <<>>
    ELSE (IF Head(valid) THEN <<Circle(Head(props))>> ELSE <<>>)
         \o Circles(Tail(props), Tail(valid))

EmptyResult == ImageResult(0, None, None, <<>>, <<>>)

\* lines 111-145: from the regions to the ImageResult
Measure_NoEmptyCheck(props, nm_per_pix, thresholds) ==
    IF props = <<>> THEN EmptyResult
    ELSE LET valid == Valid(props, nm_per_pix, thresholds)
             values == BoolIndex(DNm(props, nm_per_pix), valid)
         IN  ImageResult(Len(values),
                         Some(Rat(0, 1)),
                         Some(Sqrt(Rat(0, 1))),
                         values, Circles(props, valid))

Measure(props, nm_per_pix, thresholds) ==
    IF props = <<>> THEN EmptyResult
    ELSE LET valid == Valid(props, nm_per_pix, thresholds)
             values == BoolIndex(DNm(props, nm_per_pix), valid)
         IN  IF Len(values) = 0 THEN EmptyResult
             ELSE ImageResult(Len(values), Some(Mean(values)), Some(Std(values)),
                              values, Circles(props, valid))

\* Analyzer.analyze_image
analyze_image(image, known_nm, thresholds, sb_color, settings) ==
    LET color == EffectiveColor(sb_color, settings)
    IN  IF color \notin {"white", "black"}
        THEN Raised("Scale bar color must be 'white' or 'black'.")
        ELSE LET sb_props == SbProps(image, color, settings)
             IN  IF sb_props = <<>>
                 THEN Raised("Scale bar not found. Adjust threshold or region.")
                 ELSE LET bar_width_px == BarWidthPx(SortByArea(sb_props))
                      IN  IF bar_width_px <= 0
                          THEN Raised("Invalid scale bar width.")
                          ELSE IF image.h_img - settings.crop_bottom_px <= 1
                               THEN Raised("Crop bottom too large for this image.")
                               ELSE Returned(Measure(image.props,
                                                     NmPerPix(known_nm, bar_width_px),
                                                     thresholds))

(***************************************************************************)
(* State.                                                                  *)
(*   call, outcome: the arguments of one Analyzer.analyze_image call (with *)
(*     the Analyzer's settings) and, once it has run, what it did.         *)
(*   session: MainWindow.session, a SessionState.                          *)
(*   pending_result, pending_path, listImages, currentItem, histParams:    *)
(*     the fields and widgets of MainWindow whose values the handlers      *)
(*     read back (the preview, the labels and the log are only written).   *)
(*   csvFile: the file save_csv wrote last.                                *)
(*   History, read by no handler:                                          *)
(*     analysisCount: how many analyses of the window have returned;       *)
(*     lastAnalysed: the number and values_nm of the last one;             *)
(*     pendingId: the number of the pending result (0: none);              *)
(*     acceptedIds: the numbers of the accepted results, in order;         *)
(*     addLog: the arguments of SessionState.add_measurements, in order.   *)
(***************************************************************************)
VARIABLES call, outcome, session, pending_result, pending_path, listImages,
          currentItem, histParams, csvFile,
          analysisCount, lastAnalysed, pendingId, acceptedIds, addLog

analyzerVars == <<call, outcome>>
widgetVars == <<listImages, currentItem, histParams, csvFile>>
pendingVars == <<pending_result, pending_path, pendingId>>
historyVars == <<analysisCount, lastAnalysed, acceptedIds>>
windowVars == <<widgetVars, pendingVars, historyVars>>
sessionVars == <<session, addLog>>
vars == <<call, outcome, session, pending_result, pending_path, listImages,
          currentItem, histParams, csvFile,
          analysisCount, lastAnalysed, pendingId, acceptedIds, addLog>>

(***************************************************************************)
(* Inputs of the analysis call.                                            *)
(***************************************************************************)
\* Components of the scale-bar strip. bbox columns (minc, maxc): widths 2, 0
\* and 1 for the bright ones; the dark ones are a small and a large blob.
SbComponents ==
    {[tone |-> "bright", area |-> a, minc |-> b[1], maxc |-> b[2]] :
        a \in {1, 2, 3}, b \in {<<0, 2>>, <<1, 1>>, <<1, 2>>}}
    \cup {[tone |-> "dark", area |-> a, minc |-> 0, maxc |-> 2] : a \in {1, 3}}

\* (eccentricity, solidity) in tenths: round and solid, or elongated and ragged.
Regions ==
    {[equivalent_diameter |-> d, eccentricity |-> sh[1], solidity |-> sh[2],
      centroid |-> c] :
        d \in {2, 4}, sh \in {<<6, 6>>, <<7, 5>>}, c \in {<<0, 1>>, <<1, 0>>}}

ThresholdSet ==
    {Thresholds(a, b, e, s) : a \in {1, 2}, b \in {2, 4}, e \in {6, 7}, s \in {5, 6}}

ColorArgs == {None, Some(""), Some("white"), Some("black"), Some("WHITE"), Some("red")}

SettingsSet ==
    {AnalyzerSettings(c, 2, crop) : c \in {"white", "Black", "blue"}, crop \in {1, 2}}

Image(h_img, sb_region, props) ==
    [h_img |-> h_img, sb_region |-> sb_region, props |-> props]

Call(image, known_nm, thresholds, sb_color, settings) ==
    [image |-> image, known_nm |-> known_nm, thresholds |-> thresholds,
     sb_color |-> sb_color, settings |-> settings]

\* Calls that vary the calibration inputs over one particle field.
CalibrationCalls ==
    {Call(Image(3, bars,
                <<[equivalent_diameter |-> 2, eccentricity |-> 6, solidity |-> 6,
                   centroid |-> <<0, 1>>]>>),
          known, Thresholds(0, 16, 7, 5), color, settings) :
        bars \in SeqsUpTo(SbComponents, MaxBars), known \in {0, 2},
        color \in ColorArgs, settings \in SettingsSet}

\* Calls that vary the particle field and the thresholds over one scale bar.
FilterCalls ==
    {Call(Image(3, <<[tone |-> "bright", area |-> 3, minc |-> 0, maxc |-> 2]>>, props),
          known, thresholds, None, AnalyzerSettings("white", 2, 1)) :
        props \in SeqsUpTo(Regions, MaxRegions), known \in {1, 2},
        thresholds \in ThresholdSet}

(***************************************************************************)
(* core/session.py.                                                        *)
(***************************************************************************)
SessionState(thresholds, total_nm) == [thresholds |-> thresholds, total_nm |-> total_nm]

\* Thresholds(): the defaults of the dataclass, in the units of the model.
DefaultThresholds == Thresholds(1, 4, 7, 5)

\* self.total_nm.extend(values)
add_measurements_Replace(self, values) == [self EXCEPT !.total_nm = values]

add_measurements(self, values) == [self EXCEPT !.total_nm = @ \o values]

total_count(self) == Len(self.total_nm)

(***************************************************************************)
(* The window and the session before any event (MainWindow.__init__).      *)
(***************************************************************************)
HistParamsSet ==
    {[checked |-> FALSE, min |-> 3, max |-> 5],
     [checked |-> TRUE, min |-> 3, max |-> 5],
     [checked |-> TRUE, min |-> 5, max |-> 3]}

InitWindow ==
    /\ session = SessionState(DefaultThresholds, <<>>)
    /\ pending_result = None
    /\ pending_path = None
    /\ listImages = <<>>
    /\ currentItem = 0
    /\ histParams = [checked |-> FALSE, min |-> 3, max |-> 5]
    /\ csvFile = None
    /\ analysisCount = 0
    /\ lastAnalysed = [id |-> 0, values_nm |-> <<>>]
    /\ pendingId = 0
    /\ acceptedIds = <<>>
    /\ addLog = <<>>

(***************************************************************************)
(* One analysis call, from any of the calls of a family.                   *)
(***************************************************************************)
AnalyzeCall ==
    /\ outcome = None
    /\ outcome' = Some(analyze_image(call.image, call.known_nm, call.thresholds,
                                     call.sb_color, call.settings))
    /\ UNCHANGED <<call, windowVars, sessionVars>>

InitCalibration == call \in CalibrationCalls /\ outcome = None /\ InitWindow
InitFilter == call \in FilterCalls /\ outcome = None /\ InitWindow

NextAnalyzer == AnalyzeCall

SpecCalibration == InitCalibration /\ [][NextAnalyzer]_vars
SpecFilter == InitFilter /\ [][NextAnalyzer]_vars

(***************************************************************************)
(* What the claims about the analysis call speak of, stated from the       *)
(* inputs of the call alone.                                               *)
(***************************************************************************)
Called == outcome # None
Ok == Called /\ outcome[1].result # None
Res == outcome[1].result[1]

\* The colour the call is made with: the argument, or the settings' colour
\* when the argument is None or empty.
GivenColor(c) ==
    IF c.sb_color # None /\ c.sb_color[1] # "" THEN c.sb_color[1] ELSE c.settings.sb_color

IsWhite(s) == s \in {"white", "WHITE"}
IsBlack(s) == s \in {"black", "Black"}
ColorAccepted(c) == IsWhite(GivenColor(c)) \/ IsBlack(GivenColor(c))

\* The scale-bar components of the call's colour that are not small.
Surviving(c) ==
    SelectSeq(c.image.sb_region,
              LAMBDA b : /\ b.area >= c.settings.sb_min_area
                         /\ b.tone = (IF IsWhite(GivenColor(c)) THEN "bright" ELSE "dark"))

\* The first component, in scan order, of the largest area.
FirstLargest(bars) ==
    CHOOSE i \in 1..Len(bars) :
        /\ \A j \in 1..Len(bars) : bars[j].area <= bars[i].area
        /\ \A j \in 1..(i - 1) : bars[j].area < bars[i].area

SelectedWidth(c) ==
    LET bars == Surviving(c)
        b == bars[FirstLargest(bars)]
    IN  b.maxc - b.minc

\* None of the four failure conditions holds.
CalibrationSucceeds(c) ==
    /\ ColorAccepted(c)
    /\ Surviving(c) # <<>>
    /\ SelectedWidth(c) > 0
    /\ c.image.h_img - c.settings.crop_bottom_px > 1

\* The acceptance rule for one region on its own, in integers:
\* min_nm <= d_px * known_nm / width <= max_nm, ecc <= ecc_max, sol >= sol_min.
AcceptsRegion(p, known_nm, width, t) ==
    /\ t.min_nm * width <= p.equivalent_diameter * known_nm
    /\ p.equivalent_diameter * known_nm <= t.max_nm * width
    /\ p.eccentricity <= t.ecc_max
    /\ p.solidity >= t.sol_min

\* The positions of the regions the rule accepts, in segmentation order.
AcceptedIdx(c, known_nm, t) ==
    SelectSeq([i \in 1..Len(c.image.props) |-> i],
              LAMBDA i : AcceptsRegion(c.image.props[i], known_nm, SelectedWidth(c), t))

\* v is the diameter of region p in nm.
IsDiameterOf(v, p, known_nm, width) ==
    v.num * width = p.equivalent_diameter * known_nm * v.den

IsCircleOf(circle, p) ==
    /\ circle.x = p.centroid[2]
    /\ circle.y = p.centroid[1]
    /\ RatEq(circle.r, Rat(p.equivalent_diameter, 2))

Reanalyze(c, known_nm, t) ==
    analyze_image(c.image, known_nm, t, c.sb_color, c.settings)

(***************************************************************************)
(* C1. Every ImageResult has len(values_nm) = len(circles) = count, and    *)
(* the i-th circle and the i-th value come from the same region: there is  *)
(* an increasing choice of regions whose circles and diameters, position   *)
(* by position, are circles and values_nm.                                 *)
(***************************************************************************)
C1_CardinalityAndOrder ==
    Ok =>
        LET props == call.image.props
            w == SelectedWidth(call)
        IN  /\ Len(Res.values_nm) = Res.count
            /\ Len(Res.circles) = Res.count
            /\ \E idx \in [1..Res.count -> 1..Len(props)] :
                  /\ \A j, k \in 1..Res.count : j < k => idx[j] < idx[k]
                  /\ \A k \in 1..Res.count :
                        /\ IsCircleOf(Res.circles[k], props[idx[k]])
                        /\ IsDiameterOf(Res.values_nm[k], props[idx[k]], call.known_nm, w)

C1_Witness ==
    /\ Ok
    /\ Res.count = 1
    /\ Len(call.image.props) = 2
    /\ AcceptedIdx(call, call.known_nm, call.thresholds) = <<2>>
    /\ call.image.props[1].centroid # call.image.props[2].centroid

(***************************************************************************)
(* C2. mean_nm is None exactly when count = 0, and so is std_nm; a call    *)
(* whose calibration succeeds and whose regions all fail the filter (or    *)
(* that has no region) returns the empty result and does not raise.        *)
(***************************************************************************)
C2_NoneIffEmpty ==
    /\ Ok => /\ (Res.mean_nm = None) <=> (Res.count = 0)
             /\ (Res.std_nm = None) <=> (Res.count = 0)
    /\ (Called /\ CalibrationSucceeds(call)
            /\ AcceptedIdx(call, call.known_nm, call.thresholds) = <<>>)
       => /\ Ok
          /\ Res.count = 0
          /\ Res.values_nm = <<>>
          /\ Res.circles = <<>>
          /\ Res.mean_nm = None
          /\ Res.std_nm = None

C2_Witness ==
    /\ Ok
    /\ Len(call.image.props) = 2
    /\ Res.count = 0
    /\ Res.mean_nm = None

(***************************************************************************)
(* C3. values_nm holds the diameters of exactly the regions that satisfy   *)
(* min_nm <= d <= max_nm (both inclusive), ecc <= ecc_max, sol >= sol_min, *)
(* in segmentation order; whether a region is accepted is the same when    *)
(* the region is analysed alone.                                           *)
(***************************************************************************)
C3_FilterRule ==
    Ok =>
        LET props == call.image.props
            idx == AcceptedIdx(call, call.known_nm, call.thresholds)
        IN  /\ Len(Res.values_nm) = Len(idx)
            /\ \A k \in 1..Len(idx) :
                  IsDiameterOf(Res.values_nm[k], props[idx[k]], call.known_nm,
                               SelectedWidth(call))
            /\ \A i \in 1..Len(props) :
                  LET alone == analyze_image(
                                   Image(call.image.h_img, call.image.sb_region, <<props[i]>>),
                                   call.known_nm, call.thresholds, call.sb_color,
                                   call.settings)
                  IN  /\ alone.result # None
                      /\ (alone.result[1].count = 1) <=> (\E k \in 1..Len(idx) : idx[k] = i)

\* A region exactly at max_nm is accepted, after one that is rejected.
C3_Witness ==
    /\ Ok
    /\ Len(call.image.props) = 2
    /\ AcceptedIdx(call, call.known_nm, call.thresholds) = <<2>>
    /\ call.image.props[2].equivalent_diameter * call.known_nm
           = call.thresholds.max_nm * SelectedWidth(call)

(***************************************************************************)
(* C4. For the same image and calibration, thresholds that are narrower    *)
(* (min_nm not lower, max_nm not higher, ecc_max not higher, sol_min not   *)
(* lower) never give a larger count, and every region accepted under the   *)
(* narrower thresholds is accepted under the wider ones.                   *)
(***************************************************************************)
Narrower(t2, t1) ==
    /\ t2.min_nm >= t1.min_nm
    /\ t2.max_nm <= t1.max_nm
    /\ t2.ecc_max <= t1.ecc_max
    /\ t2.sol_min >= t1.sol_min

C4_ThresholdMonotone ==
    Ok =>
        \A t2 \in ThresholdSet :
            Narrower(t2, call.thresholds) =>
                LET props == call.image.props
                    nm_per_pix == Rat(call.known_nm, SelectedWidth(call))
                    valid1 == Valid(props, nm_per_pix, call.thresholds)
                    valid2 == Valid(props, nm_per_pix, t2)
                    o2 == Reanalyze(call, call.known_nm, t2)
                IN  /\ o2.result # None
                    /\ o2.result[1].count <= Res.count
                    /\ \A i \in 1..Len(props) : valid2[i] => valid1[i]
                    /\ Res.count = Cardinality({i \in 1..Len(props) : valid1[i]})
                    /\ o2.result[1].count = Cardinality({i \in 1..Len(props) : valid2[i]})

C4_Witness ==
    /\ Ok
    /\ Res.count = 2
    /\ \E t2 \in ThresholdSet :
          /\ Narrower(t2, call.thresholds)
          /\ t2.sol_min > call.thresholds.sol_min
          /\ Reanalyze(call, call.known_nm, t2).result[1].count = 1

(***************************************************************************)
(* C5 as stated. Doubling known_nm, with the image, the settings and the   *)
(* thresholds fixed, doubles every value of values_nm, scales mean_nm and  *)
(* std_nm by 2 and leaves count and circles unchanged.                     *)
(***************************************************************************)
Doubled(v2, v1) == RatEq(v2, RatMul(Rat(2, 1), v1))

ScaledByTwo(r2, r1) ==
    /\ r2.count = r1.count
    /\ r2.circles = r1.circles
    /\ Len(r2.values_nm) = Len(r1.values_nm)
    /\ \A k \in 1..Len(r1.values_nm) : Doubled(r2.values_nm[k], r1.values_nm[k])
    /\ (r1.mean_nm = None) <=> (r2.mean_nm = None)
    /\ (r1.std_nm = None) <=> (r2.std_nm = None)
    /\ r1.mean_nm # None /\ r2.mean_nm # None => Doubled(r2.mean_nm[1], r1.mean_nm[1])
    /\ r1.std_nm # None /\ r2.std_nm # None =>
          RatEq(r2.std_nm[1].sqrtOf, RatMul(Rat(4, 1), r1.std_nm[1].sqrtOf))

C5_UnitScaling_AsStated ==
    Ok =>
        LET o2 == Reanalyze(call, 2 * call.known_nm, call.thresholds)
        IN  o2.result # None /\ ScaledByTwo(o2.result[1], Res)

(***************************************************************************)
(* C5 as amended. Doubling known_nm, with the image, the settings and the  *)
(* thresholds fixed, doubles the value of every region accepted under both *)
(* calibrations; when the same regions are accepted under both, every      *)
(* value of values_nm doubles, mean_nm and std_nm scale by 2 and count and *)
(* circles are unchanged.  (The size filter is applied in nm, so the       *)
(* accepted regions, and count, can change.)                               *)
(***************************************************************************)
C5_UnitScaling ==
    Ok =>
        LET props == call.image.props
            w == SelectedWidth(call)
            idx1 == AcceptedIdx(call, call.known_nm, call.thresholds)
            idx2 == AcceptedIdx(call, 2 * call.known_nm, call.thresholds)
            o2 == Reanalyze(call, 2 * call.known_nm, call.thresholds)
        IN  /\ o2.result # None
            /\ Len(Res.values_nm) = Len(idx1)
            /\ Len(o2.result[1].values_nm) = Len(idx2)
            /\ \A j \in 1..Len(idx1), k \in 1..Len(idx2) :
                  idx1[j] = idx2[k] =>
                      Doubled(o2.result[1].values_nm[k], Res.values_nm[j])
            /\ idx1 = idx2 => ScaledByTwo(o2.result[1], Res)

C5_Witness ==
    /\ Ok
    /\ call.known_nm > 0
    /\ Res.count = 2
    /\ ~RatEq(Res.values_nm[1], Res.values_nm[2])
    /\ AcceptedIdx(call, call.known_nm, call.thresholds)
           = AcceptedIdx(call, 2 * call.known_nm, call.thresholds)

(***************************************************************************)
(* C6 as stated. The call raises, and returns no ImageResult, exactly when *)
(* the scale-bar colour is neither 'white' nor 'black', or no scale-bar    *)
(* component survives, or the selected bar has width <= 0, or the image    *)
(* height minus crop_bottom_px is <= 1.                                    *)
(***************************************************************************)
StatedColor(c) == IF c.sb_color # None THEN c.sb_color[1] ELSE c.settings.sb_color

BarOrCropFails(c) ==
    \/ Surviving(c) = <<>>
    \/ SelectedWidth(c) <= 0
    \/ c.image.h_img - c.settings.crop_bottom_px <= 1

C7_Calibration ==
    (Called /\ ColorAccepted(call) /\ Surviving(call) # <<>>) =>
        LET bars == Surviving(call)
            chosen == bars[FirstLargest(bars)]
            w == chosen.maxc - chosen.minc
            sb_props == SbProps(call.image, EffectiveColor(call.sb_color, call.settings),
                                call.settings)
        IN  /\ sb_props = bars
            /\ SortByArea(sb_props)[1] = chosen
            /\ BarWidthPx(SortByArea(sb_props)) = w
            /\ Ok =>
                  /\ w > 0
                  /\ RatEq(NmPerPix(call.known_nm, w), Rat(call.known_nm, w))
                  /\ call.known_nm > 0 =>
                        /\ NmPerPix(call.known_nm, w).num > 0
                        /\ NmPerPix(call.known_nm, w).den > 0
                  /\ Res.count = Len(call.image.props)
                  /\ \A k \in 1..Res.count :
                        /\ IsDiameterOf(Res.values_nm[k], call.image.props[k],
                                        call.known_nm, w)
                        /\ call.known_nm > 0 =>
                              Res.values_nm[k].num > 0 /\ Res.values_nm[k].den > 0

\* Two surviving bars of the same area and different widths: the first is used.
C7_Witness ==
    /\ Ok
    /\ call.known_nm > 0
    /\ Len(Surviving(call)) = 2
    /\ Surviving(call)[1].area = Surviving(call)[2].area
    /\ SelectedWidth(call) = Surviving(call)[1].maxc - Surviving(call)[1].minc
    /\ SelectedWidth(call) # Surviving(call)[2].maxc - Surviving(call)[2].minc

(***************************************************************************)
(* SessionState on its own: add_measurements with any list of values.      *)
(***************************************************************************)
SessionValues == {Rat(1, 1), Rat(3, 2)}

AddMeasurements ==
    \E values \in SeqsUpTo(SessionValues, 2) :
        /\ total_count(session) + Len(values) <= MaxSessionTotal
        /\ Len(addLog) < MaxSessionCalls
        /\ session' = add_measurements(session, values)
        /\ addLog' = Append(addLog, values)
        /\ UNCHANGED <<analyzerVars, windowVars>>

InitSession == call = None /\ outcome = None /\ InitWindow

NextSession == AddMeasurements

SpecSession == InitSession /\ [][NextSession]_vars

(***************************************************************************)
(* core/io_utils.py.                                                       *)
(***************************************************************************)
\* f"{v}\n": the text of one float, and the line break.
FormatLine(v) == [text |-> v, newline |-> TRUE]

\* save_csv: the file written and the CsvSaveResult returned.
save_csv(values, path) ==
    [file |-> [path |-> path, lines |-> [i \in 1..Len(values) |-> FormatLine(values[i])]],
     result |-> [path |-> path, count |-> Len(values)]]

(***************************************************************************)
(* gui/main_window.py: the files the user can pick and the inputs of the   *)
(* widgets.                                                                *)
(***************************************************************************)
Paths == {"a.png", "b.png"}

\* a.png: a bright bar two pixels wide and two particles; b.png: a bright
\* speck below sb_min_area and one particle.
ImageAt(path) ==
    IF path = "a.png"
    THEN Image(3, <<[tone |-> "bright", area |-> 3, minc |-> 0, maxc |-> 2]>>,
               <<[equivalent_diameter |-> 2, eccentricity |-> 6, solidity |-> 6,
                  centroid |-> <<0, 1>>],
                 [equivalent_diameter |-> 4, eccentricity |-> 7, solidity |-> 5,
                  centroid |-> <<1, 0>>]>>)
    ELSE Image(3, <<[tone |-> "bright", area |-> 1, minc |-> 0, maxc |-> 2]>>,
               <<[equivalent_diameter |-> 2, eccentricity |-> 6, solidity |-> 6,
                  centroid |-> <<0, 1>>]>>)

\* The values of spinMinNm, spinMaxNm, spinEcc, spinSol the user may have set.
WindowThresholds == {Thresholds(1, 4, 7, 5), Thresholds(2, 2, 6, 6)}

\* The lengths the scale-bar dialog may return.
DialogLengths == {1, 2}

\* Analyzer(): the default settings, in the units of the model.
DefaultSettings == AnalyzerSettings("white", 2, 1)

\* _get_hist_params: the range, or None when unchecked or max <= min.
get_hist_params(params) ==
    IF ~params.checked \/ params.max <= params.min
    THEN None
    ELSE Some([min_val |-> params.min, max_val |-> params.max])

\* _filter_values_by_range
filter_values_by_range(values, range) ==
    IF range = None THEN values
    ELSE SelectSeq(values, LAMBDA v : /\ RatLe(Rat(range[1].min_val, 1), v)
                                     /\ RatLe(v, Rat(range[1].max_val, 1)))

\* _set_pending (the two buttons are enabled exactly when result is not None)
set_pending(result, path) ==
    /\ pending_result' = result
    /\ pending_path' = path

(***************************************************************************)
(* gui/main_window.py: the handlers.                                       *)
(***************************************************************************)
on_add_images ==
    \E paths \in SeqsUpTo(Paths, MaxList) :
        \/ /\ paths = <<>>
           /\ UNCHANGED vars
        \/ /\ paths # <<>>
           /\ Len(listImages) + Len(paths) <= MaxList
           /\ listImages' = listImages \o paths
           /\ UNCHANGED <<analyzerVars, sessionVars, pendingVars, historyVars,
                          currentItem, histParams, csvFile>>

on_clear_list_ClearsSession ==
    /\ listImages' = <<>>
    /\ currentItem' = 0
    /\ set_pending(None, None)
    /\ pendingId' = 0
    /\ session' = [session EXCEPT !.total_nm = <<>>]
    /\ UNCHANGED <<analyzerVars, addLog, historyVars, histParams, csvFile>>

on_clear_list ==
    /\ listImages' = <<>>
    /\ currentItem' = 0
    /\ set_pending(None, None)
    /\ pendingId' = 0
    /\ UNCHANGED <<analyzerVars, sessionVars, historyVars, histParams, csvFile>>

\* The user makes item i current; currentItemChanged runs on_image_selected.
on_image_selected ==
    \E i \in 1..Len(listImages) :
        /\ i # currentItem
        /\ currentItem' = i
        /\ UNCHANGED <<analyzerVars, sessionVars, pendingVars, historyVars,
                       listImages, histParams, csvFile>>

\* The user changes a histogram widget; _on_hist_params_changed redraws.
on_hist_params_changed ==
    \E params \in HistParamsSet :
        /\ params # histParams
        /\ histParams' = params
        /\ UNCHANGED <<analyzerVars, sessionVars, pendingVars, historyVars,
                       listImages, currentItem, csvFile>>

\* Nothing selected; or the scale-bar dialog cancelled; or the analysis runs
\* and raises or returns.
on_analyze_selected ==
    \/ /\ currentItem = 0
       /\ UNCHANGED vars
    \/ /\ currentItem # 0
       /\ UNCHANGED vars
    \/ /\ currentItem # 0
       /\ \E value \in DialogLengths, thresholds \in WindowThresholds,
             sb_color \in {"white", "black"} :
             LET path == listImages[currentItem]
                 o == analyze_image(ImageAt(path), value, thresholds, Some(sb_color),
                                    DefaultSettings)
             IN  IF o.result = None
                 THEN /\ set_pending(None, None)
                      /\ pendingId' = 0
                      /\ UNCHANGED <<analyzerVars, sessionVars, historyVars, listImages,
                                     currentItem, histParams, csvFile>>
                 ELSE /\ analysisCount < MaxAnalyses
                      /\ set_pending(o.result, Some(path))
                      /\ analysisCount' = analysisCount + 1
                      /\ pendingId' = analysisCount + 1
                      /\ lastAnalysed' = [id |-> analysisCount + 1,
                                          values_nm |-> o.result[1].values_nm]
                      /\ UNCHANGED <<analyzerVars, sessionVars, acceptedIds, listImages,
                                     currentItem, histParams, csvFile>>

on_accept_KeepsPending ==
    \/ /\ pending_result = None
       /\ UNCHANGED vars
    \/ /\ pending_result # None
       /\ total_count(session) + Len(pending_result[1].values_nm) <= MaxTotal
       /\ Len(addLog) < MaxCalls
       /\ session' = add_measurements(session, pending_result[1].values_nm)
       /\ addLog' = Append(addLog, pending_result[1].values_nm)
       /\ acceptedIds' = Append(acceptedIds, pendingId)
       /\ UNCHANGED <<analyzerVars, pendingVars, analysisCount, lastAnalysed, listImages,
                      currentItem, histParams, csvFile>>

on_accept ==
    \/ /\ pending_result = None
       /\ UNCHANGED vars
    \/ /\ pending_result # None
       /\ total_count(session) + Len(pending_result[1].values_nm) <= MaxTotal
       /\ Len(addLog) < MaxCalls
       /\ session' = add_measurements(session, pending_result[1].values_nm)
       /\ addLog' = Append(addLog, pending_result[1].values_nm)
       /\ set_pending(None, None)
       /\ pendingId' = 0
       /\ acceptedIds' = Append(acceptedIds, pendingId)
       /\ UNCHANGED <<analyzerVars, analysisCount, lastAnalysed, listImages,
                      currentItem, histParams, csvFile>>

on_skip ==
    \/ /\ pending_result = None
       /\ UNCHANGED vars
    \/ /\ pending_result # None
       /\ set_pending(None, None)
       /\ pendingId' = 0
       /\ UNCHANGED <<analyzerVars, sessionVars, historyVars, listImages, currentItem,
                      histParams, csvFile>>

\* No data; or no data in the histogram range; or the file dialog cancelled
\* or the file written.
on_export ==
    \/ /\ total_count(session) = 0
       /\ UNCHANGED vars
    \/ /\ total_count(session) # 0
       /\ filter_values_by_range(session.total_nm, get_hist_params(histParams)) = <<>>
       /\ UNCHANGED vars
    \/ /\ total_count(session) # 0
       /\ filter_values_by_range(session.total_nm, get_hist_params(histParams)) # <<>>
       /\ \/ UNCHANGED vars
          \/ /\ csvFile' = Some(save_csv(filter_values_by_range(
                                             session.total_nm, get_hist_params(histParams)),
                                         "QD_size_results.csv").file)
             /\ UNCHANGED <<analyzerVars, sessionVars, pendingVars, historyVars,
                            listImages, currentItem, histParams>>

Init == call = None /\ outcome = None /\ InitWindow

Next ==
    \/ on_add_images
    \/ on_clear_list
    \/ on_image_selected
    \/ on_hist_params_changed
    \/ on_analyze_selected
    \/ on_accept
    \/ on_skip
    \/ on_export

Spec == Init /\ [][Next]_vars

(***************************************************************************)
(* What the claims about the session speak of.                             *)
(***************************************************************************)
RECURSIVE Flatten(_)
Flatten(lists) == IF lists = <<>> THEN <<>> ELSE Head(lists) \o Flatten(Tail(lists))

IsPrefix(s, t) == Len(s) <= Len(t) /\ SubSeq(t, 1, Len(s)) = s

(***************************************************************************)
(* C8. After any sequence of add_measurements calls total_nm is the        *)
(* concatenation of the given lists in call order, duplicates kept;        *)
(* total_count() is its length; each call leaves the previous contents as  *)
(* a prefix, and total_count() never decreases.                            *)
(***************************************************************************)
C8_AppendOnly ==
    /\ [](/\ session.total_nm = Flatten(addLog)
          /\ total_count(session) = Len(Flatten(addLog)))
    /\ [][/\ IsPrefix(session.total_nm, session'.total_nm)
          /\ total_count(session') >= total_count(session)]_vars

\* The same non-empty list was added twice, after something else.
C8_Witness ==
    /\ Len(addLog) = 3
    /\ addLog[1] # <<>>
    /\ addLog[2] = addLog[3]
    /\ Len(addLog[2]) = 1
    /\ total_count(session) = 3

(***************************************************************************)
(* C9. A step of the window changes session.total_nm only if it is the     *)
(* accept action; adding images, clearing the list, selecting an image,    *)
(* changing the histogram parameters, analysing (the analysis returning or *)
(* raising), skipping and exporting leave the session as it is.            *)
(***************************************************************************)
C9_OnlyAcceptChangesSession ==
    [][/\ session'.total_nm # session.total_nm => on_accept
       /\ (\/ on_add_images
           \/ on_clear_list
           \/ on_image_selected
           \/ on_hist_params_changed
           \/ on_analyze_selected
           \/ on_skip
           \/ on_export) => session' = session]_vars

\* Values were accepted and exported, a later analysis returned and the list
\* was cleared.
C9_Witness ==
    /\ session.total_nm # <<>>
    /\ csvFile # None
    /\ analysisCount > Len(acceptedIds)
    /\ listImages = <<>>
    /\ histParams.checked

(***************************************************************************)
(* C10. The values of one analysis result enter the session at most once:  *)
(* total_nm is the concatenation, in acceptance order, of the values_nm    *)
(* of the accepted results, no result accepted twice; a step that accepts  *)
(* appends the values of the pending result, the last one analysed, and    *)
(* leaves no result pending; while no result is pending and no new         *)
(* analysis returns, total_nm does not change.                             *)
(***************************************************************************)
C10_AcceptedAtMostOnce ==
    /\ [](/\ session.total_nm = Flatten(addLog)
          /\ Len(addLog) = Len(acceptedIds)
          /\ \A k \in 1..Len(acceptedIds) : acceptedIds[k] \in 1..analysisCount
          /\ \A j, k \in 1..Len(acceptedIds) : j < k => acceptedIds[j] < acceptedIds[k]
          /\ (pending_result = None) <=> (pendingId = 0)
          /\ pending_result # None =>
                /\ pendingId = lastAnalysed.id
                /\ pending_result[1].values_nm = lastAnalysed.values_nm)
    /\ [][(acceptedIds' # acceptedIds \/ session'.total_nm # session.total_nm) =>
             /\ pending_result # None
             /\ acceptedIds' = Append(acceptedIds, lastAnalysed.id)
             /\ addLog' = Append(addLog, lastAnalysed.values_nm)
             /\ session'.total_nm = session.total_nm \o lastAnalysed.values_nm
             /\ pending_result' = None]_vars
    /\ [][(pending_result = None /\ analysisCount' = analysisCount) =>
             /\ session'.total_nm = session.total_nm
             /\ pending_result' = None]_vars

\* The first result was not accepted, the second was.
C10_Witness ==
    /\ acceptedIds = <<2>>
    /\ Len(session.total_nm) = 2
    /\ pending_result = None

====
